---- MODULE Spec2Model ----
(***************************************************************************)
(* Model of the skill scaffolder (scripts/init_skill.py) and the skill     *)
(* validator (scripts/validate_skill.py).                                  *)
(*                                                                         *)
(* Texts are TLA+ strings; the Python string methods the two scripts use   *)
(* (startswith, split, strip, lower, title, replace, isalnum, in) are      *)
(* operators computed character by character.  The filesystem is a         *)
(* function from paths (tuples of components) to nodes.                    *)
(***************************************************************************)
EXTENDS Integers, Sequences, FiniteSets, TLC

VARIABLES
    fs,        \* the filesystem: path |-> node, for every path that exists
    call,      \* the last invocation of create_skill / validate_skill and its outcome
    created,   \* the skill directories create_skill has scaffolded
    edits,     \* how many files the developer has edited or added by hand
    mapping,   \* parser specification: the frontmatter mapping to be written
    content,   \* parser specification: the document text handed to parse_frontmatter
    parsed     \* parser specification: what parse_frontmatter returned

vars == <<fs, call, created, edits, mapping, content, parsed>>

(***************************************************************************)
(* Bounds of the model.                                                    *)
(***************************************************************************)
MaxEdits == 1        \* hand edits in one behaviour
MaxValueLen == 3     \* length of the values of the parser's input mappings

(***************************************************************************)
(* Python str methods.                                                     *)
(***************************************************************************)
Char(s, i) == SubSeq(s, i, i)

Min(S) == CHOOSE x \in S : \A y \in S : x <= y

\* str.strip() with no argument strips these (those of them the model's texts use)
WHITESPACE == {" ", "\t", "\n", "\r", "\f"}

\* the argument of .strip('"\'')
QUOTES == {"\"", "'"}

ASCII_LOWERCASE == "abcdefghijklmnopqrstuvwxyz"

\* the cased letters of the model's texts: the ASCII ones, and one that is not ASCII
LOWERCASE == ASCII_LOWERCASE \o "é"

UPPERCASE == "ABCDEFGHIJKLMNOPQRSTUVWXYZ" \o "É"

DIGITS == "0123456789"

\* sub in s
Contains(s, sub) ==
    \E i \in 1..(Len(s) - Len(sub) + 1) : SubSeq(s, i, i + Len(sub) - 1) = sub

\* s.find(sub, start), 1-based; 0 when absent
Find(s, sub, start) ==
    LET hits == {i \in start..(Len(s) - Len(sub) + 1) :
                    SubSeq(s, i, i + Len(sub) - 1) = sub}
    IN IF hits = {} THEN 0 ELSE Min(hits)

StartsWith(s, prefix) ==
    Len(prefix) <= Len(s) /\ SubSeq(s, 1, Len(prefix)) = prefix

\* s.split(sep, maxsplit); maxsplit = -1 splits at every occurrence
RECURSIVE Split(_, _, _)
Split(s, sep, maxsplit) ==
    LET i == Find(s, sep, 1)
    IN IF maxsplit = 0 \/ i = 0
       THEN <<s>>
       ELSE <<SubSeq(s, 1, i - 1)>>
            \o Split(SubSeq(s, i + Len(sep), Len(s)), sep, maxsplit - 1)

\* s.strip(chars): every leading and every trailing character in chars goes
Strip(s, chars) ==
    LET n == Len(s)
        kept(i) == Char(s, i) \notin chars
    IN IF \A i \in 1..n : ~kept(i) THEN ""
       ELSE LET first == CHOOSE i \in 1..n : kept(i) /\ \A j \in 1..(i - 1) : ~kept(j)
                last == CHOOSE i \in 1..n : kept(i) /\ \A j \in (i + 1)..n : ~kept(j)
            IN SubSeq(s, first, last)

\* the characters of s
CharsOf(s) == {Char(s, i) : i \in 1..Len(s)}

\* the lower-case form of each upper-case letter, and the converse
ToLower == [c \in CharsOf(UPPERCASE) |-> Char(LOWERCASE, Find(UPPERCASE, c, 1))]

ToUpper == [c \in CharsOf(LOWERCASE) |-> Char(UPPERCASE, Find(LOWERCASE, c, 1))]

LowerChar(c) == IF c \in DOMAIN ToLower THEN ToLower[c] ELSE c

UpperChar(c) == IF c \in DOMAIN ToUpper THEN ToUpper[c] ELSE c

IsCased(c) == c \in DOMAIN ToLower \/ c \in DOMAIN ToUpper

\* s.lower()
RECURSIVE Lower(_)
Lower(s) ==
    IF Len(s) = 0 THEN ""
    ELSE IF Len(s) = 1 THEN LowerChar(s)
    ELSE LET h == Len(s) \div 2
         IN Lower(SubSeq(s, 1, h)) \o Lower(SubSeq(s, h + 1, Len(s)))

(***************************************************************************)
(* validate_skill.py: parse_frontmatter.  A dict is a function whose       *)
(* domain is its key set; assigning a key again replaces its value.        *)
(***************************************************************************)
EmptyDict == [k \in {} |-> ""]

SetItem(d, k, v) == (k :> v) @@ d

\* line 35 splitting at every ":", as split(":") without the limit would
ParseLine_EveryColon(frontmatter, line) ==
    IF Contains(line, ":")
    THEN LET kv == Split(line, ":", -1)
         IN SetItem(frontmatter, Strip(kv[1], WHITESPACE),
                    Strip(Strip(kv[2], WHITESPACE), QUOTES))
    ELSE frontmatter

\* the loop body, lines 34-36
ParseLine(frontmatter, line) ==
    IF Contains(line, ":")
    THEN LET kv == Split(line, ":", 1)
         IN SetItem(frontmatter, Strip(kv[1], WHITESPACE),
                    Strip(Strip(kv[2], WHITESPACE), QUOTES))
    ELSE frontmatter

\* the for loop of lines 32-36 over the lines from index i on
RECURSIVE ParseLines(_, _, _)
ParseLines(frontmatter, lines, i) ==
    IF i > Len(lines) THEN frontmatter
    ELSE ParseLines(ParseLine(frontmatter, lines[i]), lines, i + 1)

parse_frontmatter(text) ==
    IF ~StartsWith(text, "---")
    THEN [frontmatter |-> EmptyDict, body |-> text]
    ELSE LET parts == Split(text, "---", 2)
         IN IF Len(parts) < 3
            THEN [frontmatter |-> EmptyDict, body |-> text]
            ELSE [frontmatter |->
                      ParseLines(EmptyDict,
                                 Split(Strip(parts[2], WHITESPACE), "\n", -1), 1),
                  body |-> parts[3]]

(***************************************************************************)
(* More Python str methods, used by init_skill.py.                         *)
(***************************************************************************)
RECURSIVE JoinFrom(_, _, _)
JoinFrom(parts, sep, i) ==
    IF i > Len(parts) THEN ""
    ELSE IF i = Len(parts) THEN parts[i]
    ELSE parts[i] \o sep \o JoinFrom(parts, sep, i + 1)

\* s.replace(old, new)
Replace(s, old, new) == JoinFrom(Split(s, old, -1), new, 1)

\* s.isalnum(): at least one character, and every character a letter or a digit
\* (of any script: "é".isalnum() is True)
IsAlnum(s) ==
    /\ Len(s) > 0
    /\ \A i \in 1..Len(s) :
           \/ Contains(LOWERCASE, Char(s, i))
           \/ Contains(UPPERCASE, Char(s, i))
           \/ Contains(DIGITS, Char(s, i))

\* s.title(): a cased character is upper-cased when the character before it is
\* not cased, lower-cased when it is
RECURSIVE TitleFrom(_, _, _)
TitleFrom(s, i, previous_is_cased) ==
    IF i > Len(s) THEN ""
    ELSE (IF previous_is_cased THEN LowerChar(Char(s, i)) ELSE UpperChar(Char(s, i)))
         \o TitleFrom(s, i + 1, IsCased(Char(s, i)))

Title(s) == TitleFrom(s, 1, FALSE)

\* template.format(**kwargs): "{{" and "}}" are literal braces, "{key}" is kwargs[key]
RECURSIVE Format(_, _)
Format(template, kwargs) ==
    LET open == Find(template, "{", 1)
        close == Find(template, "}", 1)
        i == IF open = 0 THEN close ELSE IF close = 0 THEN open
             ELSE IF open < close THEN open ELSE close
        n == Len(template)
    IN IF i = 0 THEN template
       ELSE IF i < n /\ SubSeq(template, i, i + 1) \in {"{{", "}}"}
       THEN SubSeq(template, 1, i) \o Format(SubSeq(template, i + 2, n), kwargs)
       ELSE LET j == Find(template, "}", i)
            IN SubSeq(template, 1, i - 1)
               \o kwargs[SubSeq(template, i + 1, j - 1)]
               \o Format(SubSeq(template, j + 1, n), kwargs)

(***************************************************************************)
(* The filesystem.  A path is the tuple of its components, relative to the *)
(* working directory <<>>, which always exists.                            *)
(***************************************************************************)
DirNode == [kind |-> "dir", text |-> "", decodable |-> TRUE]

FileNode(text) == [kind |-> "file", text |-> text, decodable |-> TRUE]

\* a file whose bytes are not text: read_text() raises UnicodeDecodeError
BinaryNode == [kind |-> "file", text |-> "", decodable |-> FALSE]

\* Path(output_path)
PathOf(output_path) == Split(output_path, "/", -1)

\* the / operator of pathlib
Join(path, name) == path \o <<name>>

Parent(path) == SubSeq(path, 1, Len(path) - 1)

Name(path) == path[Len(path)]

\* Path.exists()
Exists(f, path) == path = <<>> \/ path \in DOMAIN f

\* Path.is_dir()
IsDir(f, path) == path = <<>> \/ (path \in DOMAIN f /\ f[path].kind = "dir")

\* Path.is_file()
IsFile(f, path) == path \in DOMAIN f /\ f[path].kind = "file"

\* Path.glob("*"): the direct entries
Glob(f, dir) ==
    {p \in DOMAIN f : Len(p) = Len(dir) + 1 /\ SubSeq(p, 1, Len(dir)) = dir}

\* the outcome of a run of filesystem calls: the filesystem after them, and the
\* exception that ended the run ("" while none has)
Ok(f) == [fs |-> f, raised |-> ""]

Raise(f, exception) == [fs |-> f, raised |-> exception]

\* os.mkdir(path) with exist_ok: the parent is there
MkdirOne(f, path) ==
    IF Exists(f, path)
    THEN IF IsDir(f, path) THEN Ok(f) ELSE Raise(f, "FileExistsError")
    ELSE IF IsDir(f, Parent(path)) THEN Ok((path :> DirNode) @@ f)
    ELSE Raise(f, "NotADirectoryError")

\* the ancestors of path that mkdir(parents=True) has to make, and path: from index
\* i of path on
RECURSIVE MkdirFrom(_, _, _)
MkdirFrom(r, path, i) ==
    IF r.raised # "" \/ i > Len(path) THEN r
    ELSE MkdirFrom(MkdirOne(r.fs, SubSeq(path, 1, i)), path, i + 1)

\* Path.mkdir(parents=True, exist_ok=True), unless an earlier call raised
Mkdir(r, path) ==
    IF r.raised # "" THEN r
    ELSE IF Exists(r.fs, path) \/ IsDir(r.fs, Parent(path)) THEN MkdirOne(r.fs, path)
    ELSE IF Exists(r.fs, Parent(path)) THEN Raise(r.fs, "NotADirectoryError")
    ELSE MkdirFrom(r, path, 1)

\* Path.write_text(text), unless an earlier call raised
WriteText(r, path, text) ==
    IF r.raised # "" THEN r
    ELSE IF IsDir(r.fs, path) THEN Raise(r.fs, "IsADirectoryError")
    ELSE IF IsDir(r.fs, Parent(path)) THEN Ok((path :> FileNode(text)) @@ r.fs)
    ELSE IF Exists(r.fs, Parent(path)) THEN Raise(r.fs, "NotADirectoryError")
    ELSE Raise(r.fs, "FileNotFoundError")

(***************************************************************************)
(* init_skill.py                                                           *)
(***************************************************************************)
\* The three templates, line for line.  A TLA+ string cannot hold a backquote: the
\* eight backquotes of SKILL_MD_TEMPLATE (lines 49, 51, 59) are written ~, which
\* like the backquote is no letter, digit, quote, space, brace, colon or hyphen.
SKILL_MD_TEMPLATE ==
       "---\n"
    \o "name: {skill_name}\n"
    \o "description: TODO - Add a description of when this skill should be used. Be specific about trigger conditions.\n"
    \o "---\n"
    \o "\n"
    \o "# {skill_title}\n"
    \o "\n"
    \o "## Overview\n"
    \o "\n"
    \o "TODO - Describe the purpose and capabilities of this skill.\n"
    \o "\n"
    \o "## When to Use This Skill\n"
    \o "\n"
    \o "- TODO - Trigger condition 1\n"
    \o "- TODO - Trigger condition 2\n"
    \o "- TODO - Trigger condition 3\n"
    \o "\n"
    \o "## Workflow\n"
    \o "\n"
    \o "### Step 1: [Action]\n"
    \o "\n"
    \o "TODO - Instructions for Claude\n"
    \o "\n"
    \o "### Step 2: [Action]\n"
    \o "\n"
    \o "TODO - Instructions for Claude\n"
    \o "\n"
    \o "## Examples\n"
    \o "\n"
    \o "**User Request**: \"TODO - Example prompt\"\n"
    \o "\n"
    \o "**Expected Output**:\n"
    \o "~~~\n"
    \o "TODO - Show expected output\n"
    \o "~~~\n"
    \o "\n"
    \o "## Error Handling\n"
    \o "\n"
    \o "- If [error condition], then [action]\n"
    \o "\n"
    \o "## References\n"
    \o "\n"
    \o "- Load ~references/example.md~ for additional context (delete if not needed)\n"

REFERENCE_TEMPLATE ==
       "# Reference Documentation\n"
    \o "\n"
    \o "TODO - Add reference documentation that Claude should load as needed.\n"
    \o "\n"
    \o "This file should contain:\n"
    \o "- Detailed specifications\n"
    \o "- API documentation\n"
    \o "- Schema definitions\n"
    \o "- Extended examples\n"
    \o "\n"
    \o "Keep this separate from SKILL.md to avoid loading unnecessary context.\n"

SCRIPT_TEMPLATE ==
       "#!/usr/bin/env python3\n"
    \o "\"\"\"\n"
    \o "TODO - Description of what this script does.\n"
    \o "\n"
    \o "Usage:\n"
    \o "    python {script_name}.py <args>\n"
    \o "\"\"\"\n"
    \o "\n"
    \o "import argparse\n"
    \o "\n"
    \o "\n"
    \o "def main():\n"
    \o "    parser = argparse.ArgumentParser(description=\"TODO - Script description\")\n"
    \o "    parser.add_argument(\"input\", help=\"TODO - Input description\")\n"
    \o "    args = parser.parse_args()\n"
    \o "\n"
    \o "    # TODO - Implement script logic\n"
    \o "    print(f\"Processing: {{args.input}}\")\n"
    \o "\n"
    \o "\n"
    \o "if __name__ == \"__main__\":\n"
    \o "    main()\n"

\* line 104 also taking the dots out of the name before isalnum()
InvalidName_DotsAllowed(skill_name) ==
    ~IsAlnum(Replace(Replace(Replace(skill_name, "-", ""), "_", ""), ".", ""))

\* line 104: the name check
InvalidName(skill_name) ==
    ~IsAlnum(Replace(Replace(skill_name, "-", ""), "_", ""))

\* line 109 testing is_dir() in place of exists()
TargetExists_DirOnly(f, skill_path) == IsDir(f, skill_path)

\* line 109: the target-exists check
TargetExists(f, skill_path) == Exists(f, skill_path)

\* line 118 without the replacement of the underscores
SkillTitle_HyphensOnly(skill_name) == Title(Replace(skill_name, "-", " "))

\* line 118
SkillTitle(skill_name) == Title(Replace(Replace(skill_name, "-", " "), "_", " "))

\* lines 119-122
SkillMdContent(skill_name) ==
    Format(SKILL_MD_TEMPLATE,
           [skill_name |-> skill_name, skill_title |-> SkillTitle(skill_name)])

\* line 129
ScriptContent == Format(SCRIPT_TEMPLATE, [script_name |-> "example"])

\* lines 112-133: the directories and files written once the checks have passed
Scaffold(f, skill_path, skill_name) ==
    LET r1 == Mkdir(Ok(f), Join(skill_path, "scripts"))
        r2 == Mkdir(r1, Join(skill_path, "references"))
        r3 == Mkdir(r2, Join(skill_path, "assets"))
        r4 == WriteText(r3, Join(skill_path, "SKILL.md"), SkillMdContent(skill_name))
        r5 == WriteText(r4, Join(Join(skill_path, "references"), "example.md"),
                        REFERENCE_TEMPLATE)
        r6 == WriteText(r5, Join(Join(skill_path, "scripts"), "example.py"), ScriptContent)
    IN WriteText(r6, Join(Join(skill_path, "assets"), ".gitkeep"), "")

create_skill(f, skill_name, output_path) ==
    IF InvalidName(skill_name) THEN Raise(f, "ValueError")
    ELSE LET skill_path == Join(PathOf(output_path), skill_name)
         IN IF TargetExists(f, skill_path) THEN Raise(f, "FileExistsError")
            ELSE Scaffold(f, skill_path, skill_name)


(***************************************************************************)
(* The inputs of the model: the arguments given to the scaffold command,   *)
(* and the texts the developer gives SKILL.md afterwards.                  *)
(***************************************************************************)
\* the (skill_name, --path) arguments tried
CreateInputs ==
    { <<"my-skill", "skills">>, <<"my-skill", "new/dir">>, <<"my-skill", "notes.txt">>,
      <<"a---b", "skills">>, <<"Ab_2c", "skills">>, <<"é", "skills">>,
      <<"-", "skills">>, <<"", "skills">>, <<"a b", "skills">>, <<"a.b", "skills">>,
      <<"plain", "skills">> }

Description50 == "Use when the user asks to review a change closely."

Description49 == "Use when the user asks to review a change closely"

GoodBody ==
       "\n# Review\n\n## When to Use\n\nOn review requests for a change.\n\n"
    \o "## Workflow\n\nRead the diff, then comment.\n\n## Example\n\nReview my patch.\n"

\* the texts the developer may give SKILL.md
ManifestTexts ==
    { "---\nname: review\ndescription: " \o Description50 \o "\n---\n" \o GoodBody,
      "---\nname: review\ndescription: " \o Description49 \o "\n---\n" \o GoodBody,
      "---\nname: review\ndescription: \"" \o Description49 \o "\"\n---\n" \o GoodBody,
      "---\nname: Code Review\ndescription: TODO\n---\n\n# Review\n\n## Workflow\n\nTODO\n",
      "---\ndescription: Reviews one change closely and leaves line notes on it.\n---\n"
          \o GoodBody,
      "---\nname: review\n---\n\n# Review\n\n## workflow\n\nRead the diff.\n",
      "# Review\n\nname: review\n" \o GoodBody,
      "---\nname: review\ndescription: " \o Description50 \o "\n" }

\* the texts SKILL.md can hold: the ones create_skill writes, the ones the developer writes
PossibleManifests ==
    ManifestTexts
    \cup {SkillMdContent(input[1]) : input \in {i \in CreateInputs : ~InvalidName(i[1])}}

(***************************************************************************)
(* validate_skill.py: validate_skill                                       *)
(***************************************************************************)
MinDescriptionLen == 50

MinBodyLen == 100

TRIGGERS == <<"when", "use", "should", "for">>

recommended_sections == <<"When to Use", "Workflow", "Example">>

SUBDIRS == <<"scripts", "references", "assets">>

\* re.match(r"^[a-z][a-z0-9-]*$", s); $ also matches before one final newline
MatchesNamePattern(s) ==
    LET t == IF Len(s) > 0 /\ Char(s, Len(s)) = "\n" THEN SubSeq(s, 1, Len(s) - 1) ELSE s
    IN /\ Len(t) >= 1
       /\ Contains(ASCII_LOWERCASE, Char(t, 1))
       /\ \A i \in 2..Len(t) :
              \/ Contains(ASCII_LOWERCASE, Char(t, i))
              \/ Contains(DIGITS, Char(t, i))
              \/ Char(t, i) = "-"

NotFoundError == "SKILL.md file not found"

MissingNameError == "Missing required field 'name' in frontmatter"

InvalidNameError(name) ==
    "Invalid name format: " \o name \o ". Use lowercase letters, numbers, and hyphens."

MissingDescriptionError == "Missing required field 'description' in frontmatter"

DescriptionTooShortError(n) ==
    "Description too short (" \o ToString(n) \o " chars). Should be at least 50 characters."

DescriptionTodoError == "Description contains TODO placeholder"

DescriptionTriggerError == "Description should explain when to use this skill"

BodyTooShortError == "SKILL.md body is too short. Add detailed instructions."

BodyTodoError == "SKILL.md body contains TODO placeholders"

MissingSectionError(section) == "Missing recommended section: '" \o section \o "'"

FileTodoError(subdir, name) ==
    "File " \o subdir \o "/" \o name \o " contains TODO placeholders"

\* errors.append(message) when the rule is violated
AppendIf(errors, violated, message) ==
    IF violated THEN Append(errors, message) ELSE errors

\* line 64 with <= in place of <
DescriptionTooShort_Inclusive(desc) == Len(desc) <= MinDescriptionLen

\* line 64
DescriptionTooShort(desc) == Len(desc) < MinDescriptionLen

\* lines 55-58
CheckName(errors, frontmatter) ==
    IF "name" \notin DOMAIN frontmatter THEN Append(errors, MissingNameError)
    ELSE AppendIf(errors, ~MatchesNamePattern(frontmatter["name"]),
                  InvalidNameError(frontmatter["name"]))

\* lines 60-69
CheckDescription(errors, frontmatter) ==
    IF "description" \notin DOMAIN frontmatter
    THEN Append(errors, MissingDescriptionError)
    ELSE LET desc == frontmatter["description"]
             e1 == AppendIf(errors, DescriptionTooShort(desc),
                            DescriptionTooShortError(Len(desc)))
             e2 == AppendIf(e1, Contains(desc, "TODO"), DescriptionTodoError)
             lowered == Lower(desc)
         IN AppendIf(e2, ~\E i \in DOMAIN TRIGGERS : Contains(lowered, TRIGGERS[i]),
                     DescriptionTriggerError)

\* lines 72-76
CheckBody(errors, body) ==
    LET e1 == AppendIf(errors, Len(Strip(body, WHITESPACE)) < MinBodyLen,
                       BodyTooShortError)
    IN AppendIf(e1, Contains(body, "TODO"), BodyTodoError)

\* lines 80-82, from section i on
RECURSIVE CheckSections(_, _, _)
CheckSections(errors, lowered_body, i) ==
    IF i > Len(recommended_sections) THEN errors
    ELSE CheckSections(
             AppendIf(errors, ~Contains(lowered_body, Lower(recommended_sections[i])),
                      MissingSectionError(recommended_sections[i])),
             lowered_body, i + 1)

\* the state of validate_skill: its errors list, and the exception that ended it
Running(errors) == [errors |-> errors, raised |-> ""]

\* lines 91-94 for one entry of a subdirectory
CheckFile(v, f, subdir, path) ==
    IF v.raised # "" THEN v
    ELSE IF Name(path) # ".gitkeep" /\ IsFile(f, path)
    THEN IF ~f[path].decodable THEN [v EXCEPT !.raised = "UnicodeDecodeError"]
         ELSE [v EXCEPT !.errors = AppendIf(@, Contains(f[path].text, "TODO"),
                                            FileTodoError(subdir, Name(path)))]
    ELSE v

\* lines 90-94 over files, from index i on
RECURSIVE CheckFiles(_, _, _, _, _)
CheckFiles(v, f, subdir, files, i) ==
    IF i > Len(files) THEN v
    ELSE CheckFiles(CheckFile(v, f, subdir, files[i]), f, subdir, files, i + 1)

\* lines 85-94 over the subdirectories, from index i on; listing[subdir] is what
\* glob("*") returned for it, in the order it returned it
RECURSIVE CheckSubdirs(_, _, _, _, _)
CheckSubdirs(v, f, skill_path, listing, i) ==
    IF i > Len(SUBDIRS) THEN v
    ELSE LET subpath == Join(skill_path, SUBDIRS[i])
             checked == IF Exists(f, subpath) /\ IsDir(f, subpath)
                        THEN CheckFiles(v, f, SUBDIRS[i], listing[SUBDIRS[i]], 1)
                        ELSE v
         IN CheckSubdirs(checked, f, skill_path, listing, i + 1)

\* the orders in which the members of S may be listed
Orderings(S) ==
    {o \in [1..Cardinality(S) -> S] : \A i, j \in DOMAIN o : o[i] = o[j] => i = j}

\* what glob("*") may return for the three subdirectories: each one's entries, in any order
Listings(f, skill_path) ==
    {l \in [{SUBDIRS[i] : i \in DOMAIN SUBDIRS} ->
               UNION {Orderings(Glob(f, Join(skill_path, SUBDIRS[i]))) : i \in DOMAIN SUBDIRS}] :
        \A i \in DOMAIN SUBDIRS : l[SUBDIRS[i]] \in Orderings(Glob(f, Join(skill_path, SUBDIRS[i])))}

\* lines 79-82 searching the body as it stands, without body.lower()
CheckManifest_BodyNotLowered(text) ==
    LET p == parse_frontmatter(text)
        e1 == CheckName(<<>>, p.frontmatter)
        e2 == CheckDescription(e1, p.frontmatter)
        e3 == CheckBody(e2, p.body)
    IN CheckSections(e3, p.body, 1)

\* lines 51-82: the rules on the text of SKILL.md
CheckManifest(text) ==
    LET p == parse_frontmatter(text)
        e1 == CheckName(<<>>, p.frontmatter)
        e2 == CheckDescription(e1, p.frontmatter)
        e3 == CheckBody(e2, p.body)
    IN CheckSections(e3, Lower(p.body), 1)

ManifestErrors == [text \in PossibleManifests |-> CheckManifest(text)]

\* lines 41-96.  ManifestErrors is CheckManifest, worked out once for each text
\* SKILL.md can hold.
validate_skill(f, skill_path, listing) ==
    LET skill_md == Join(skill_path, "SKILL.md")
    IN IF ~Exists(f, skill_md) THEN Running(<<NotFoundError>>)
       ELSE IF IsDir(f, skill_md) THEN [errors |-> <<>>, raised |-> "IsADirectoryError"]
       ELSE IF ~f[skill_md].decodable THEN [errors |-> <<>>, raised |-> "UnicodeDecodeError"]
       ELSE CheckSubdirs(Running(ManifestErrors[f[skill_md].text]),
                         f, skill_path, listing, 1)

(***************************************************************************)
(* The parser on its own: a mapping is written out as "key: value" lines   *)
(* between two "---" markers, and the text is parsed back.                 *)
(***************************************************************************)
Keys == {"k", "", "k ", "a:b", "'k'", "-"}

ValueAlphabet == {"a", " ", "\"", "'", ":", "-", "\n"}

\* every text of exactly n characters of ValueAlphabet
RECURSIVE TextsOfLen(_)
TextsOfLen(n) ==
    IF n = 0 THEN {""} ELSE {t \o c : t \in TextsOfLen(n - 1), c \in ValueAlphabet}

Values == UNION {TextsOfLen(n) : n \in 0..MaxValueLen}

\* a second entry some mappings carry
ExtraItems == {<<"j", "b">>, <<" k", "'c'">>}

Mappings ==
    {EmptyDict}
    \cup {SetItem(EmptyDict, k, v) : k \in Keys, v \in Values}
    \cup {SetItem(SetItem(EmptyDict, k, v), e[1], e[2]) :
              k \in Keys, v \in Values, e \in ExtraItems}

RECURSIVE ItemLines(_, _, _)
ItemLines(d, order, i) ==
    IF i > Len(order) THEN ""
    ELSE order[i] \o ": " \o d[order[i]] \o "\n" \o ItemLines(d, order, i + 1)

\* "key: value" lines between two delimiter markers
Serialize(d, order) == "---\n" \o ItemLines(d, order, 1) \o "---\n"

NoText == ""

NotParsed == <<>>

Idle == [op |-> "none"]

InitParse ==
    /\ mapping \in Mappings
    /\ content = NoText
    /\ parsed = NotParsed
    /\ fs = <<>>
    /\ call = Idle
    /\ created = {}
    /\ edits = 0

WriteFrontmatter ==
    /\ content = NoText
    /\ \E order \in Orderings(DOMAIN mapping) : content' = Serialize(mapping, order)
    /\ UNCHANGED <<fs, call, created, edits, mapping, parsed>>

ParseFrontmatter ==
    /\ content # NoText
    /\ parsed = NotParsed
    /\ parsed' = <<parse_frontmatter(content)>>
    /\ UNCHANGED <<fs, call, created, edits, mapping, content>>

NextParse == WriteFrontmatter \/ ParseFrontmatter

SpecParse == InitParse /\ [][NextParse]_vars

(***************************************************************************)
(* The two tools at work on one filesystem: the developer scaffolds        *)
(* skills, edits what was scaffolded (the "Next steps" create_skill        *)
(* prints) and validates.                                                  *)
(***************************************************************************)
\* the entries the developer may put into a subdirectory: <<subdir, name, node>>
EntryChoices ==
    { <<"scripts", "example.py", FileNode("print(1)\n")>>,
      <<"scripts", "draft.py", FileNode("# TODO - write this\n")>>,
      <<"scripts", "data.bin", BinaryNode>>,
      <<"references", "example.md", FileNode("# Notes\n")>>,
      <<"references", "old", DirNode>>,
      <<"assets", "logo.png", BinaryNode>>,
      <<"assets", "notes.txt", FileNode("TODO: pick colours\n")>>,
      <<"assets", ".gitkeep", FileNode("TODO\n")>> }

Init ==
    /\ fs = (<<"skills">> :> DirNode)
            @@ (<<"skills", "plain">> :> FileNode("not a skill\n"))
            @@ (<<"notes.txt">> :> FileNode("notes\n"))
    /\ call = Idle
    /\ created = {}
    /\ edits = 0
    /\ mapping = EmptyDict
    /\ content = NoText
    /\ parsed = NotParsed

\* init_skill.py main(): one run of the scaffold command
CreateSkill(skill_name, output_path) ==
    LET r == create_skill(fs, skill_name, output_path)
    IN \* one skill is scaffolded; after it, only runs that a pre-flight check refuses
       /\ \/ created = {}
          \/ InvalidName(skill_name)
          \/ TargetExists(fs, Join(PathOf(output_path), skill_name))
       /\ fs' = r.fs
       /\ call' = [op |-> "create_skill", skill_name |-> skill_name,
                   output_path |-> output_path, raised |-> r.raised, before |-> fs]
       /\ created' = IF r.raised = ""
                     THEN created \cup {Join(PathOf(output_path), skill_name)}
                     ELSE created
       /\ UNCHANGED <<edits, mapping, content, parsed>>

\* validate_skill.py main(): one run of the validate command, on a directory
ValidateSkill(skill_path) ==
    /\ Exists(fs, skill_path)
    /\ IsDir(fs, skill_path)
    /\ \E listing \in Listings(fs, skill_path) :
           LET v == validate_skill(fs, skill_path, listing)
           IN call' = [op |-> "validate_skill", skill_path |-> skill_path,
                       raised |-> v.raised, errors |-> v.errors, before |-> fs]
    /\ UNCHANGED <<fs, created, edits, mapping, content, parsed>>

\* next step 1: the developer rewrites SKILL.md
EditSkillMd(skill_path, text) ==
    /\ edits < MaxEdits
    /\ fs' = WriteText(Ok(fs), Join(skill_path, "SKILL.md"), text).fs
    /\ edits' = edits + 1
    /\ call' = Idle
    /\ UNCHANGED <<created, mapping, content, parsed>>

\* next steps 2 to 4: the developer puts an entry into scripts/, references/ or assets/
AddEntry(skill_path, entry) ==
    /\ edits < MaxEdits
    /\ fs' = (Join(Join(skill_path, entry[1]), entry[2]) :> entry[3]) @@ fs
    /\ edits' = edits + 1
    /\ call' = Idle
    /\ UNCHANGED <<created, mapping, content, parsed>>

Next ==
    \/ \E input \in CreateInputs : CreateSkill(input[1], input[2])
    \/ \E skill_path \in created \cup {<<"skills">>} : ValidateSkill(skill_path)
    \/ \E skill_path \in created, text \in ManifestTexts : EditSkillMd(skill_path, text)
    \/ \E skill_path \in created, entry \in EntryChoices : AddEntry(skill_path, entry)

Spec == Init /\ [][Next]_vars

(***************************************************************************)
(* Properties.                                                             *)
(***************************************************************************)
Range(seq) == {seq[i] : i \in DOMAIN seq}

IsCreate == call.op = "create_skill"

IsValidate == call.op = "validate_skill"

\* the skill directory the last create_skill run was about
SkillPath == Join(PathOf(call.output_path), call.skill_name)

LETTERS == CharsOf(LOWERCASE) \cup CharsOf(UPPERCASE)

ASCII_ALNUM ==
    CharsOf(ASCII_LOWERCASE) \cup CharsOf("ABCDEFGHIJKLMNOPQRSTUVWXYZ") \cup CharsOf(DIGITS)

\* every component of the output path that exists is a directory
OutputUsable(f, output_path) ==
    \A k \in 1..Len(PathOf(output_path)) :
        LET prefix == SubSeq(PathOf(output_path), 1, k)
        IN prefix \in DOMAIN f => f[prefix].kind = "dir"

\* C1: when the skill path already exists (file or directory), create_skill fails and
\* the filesystem stays as it was; when it exists because an earlier create_skill made
\* it, the failure is FileExistsError.
C1_ExistingTargetRefused ==
    (IsCreate /\ SkillPath \in DOMAIN call.before) =>
        /\ call.raised \in {"ValueError", "FileExistsError"}
        /\ fs = call.before
        /\ SkillPath \in created => call.raised = "FileExistsError"

\* a second create_skill on a skill scaffolded and then edited
C1_Witness ==
    /\ IsCreate
    /\ SkillPath \in created
    /\ call.raised = "FileExistsError"
    /\ fs[Join(SkillPath, "SKILL.md")].text \in ManifestTexts

\* C2 as stated: a name with a character outside [A-Za-z0-9_-] is refused with
\* ValueError and nothing is written.
C2_NonAsciiRefused ==
    (IsCreate /\ \E i \in 1..Len(call.skill_name) :
                     Char(call.skill_name, i) \notin ASCII_ALNUM \cup {"-", "_"}) =>
        (call.raised = "ValueError" /\ fs = call.before)

\* C2 as amended: a name with a character that is no letter or digit (of any script),
\* no hyphen and no underscore is refused with ValueError and nothing is written.
C2_InvalidNameRefused ==
    (IsCreate /\ \E i \in 1..Len(call.skill_name) :
                     Char(call.skill_name, i) \notin LETTERS \cup CharsOf(DIGITS) \cup {"-", "_"}) =>
        (call.raised = "ValueError" /\ fs = call.before)

C2_Witness ==
    IsCreate /\ call.skill_name = "a.b" /\ call.raised = "ValueError" /\ created # {}

\* the heading create_skill is to derive from each name
ExpectedTitle ==
    [n \in {"my-skill", "a---b", "Ab_2c", "é", "plain", "-", ""} |->
        CASE n = "my-skill" -> "My Skill"
          [] n = "a---b" -> "A   B"
          [] n = "Ab_2c" -> "Ab 2C"
          [] n = "é" -> "É"
          [] n = "plain" -> "Plain"
          [] OTHER -> ""]

\* the last create_skill run succeeded and left the layout of the skill convention,
\* with the name and the title in SKILL.md
Scaffolded ==
    LET entry(name) == Join(SkillPath, name)
        text == fs[entry("SKILL.md")].text
    IN /\ call.raised = ""
       /\ Glob(fs, SkillPath)
              = {entry("SKILL.md"), entry("scripts"), entry("references"), entry("assets")}
       /\ fs[entry("SKILL.md")].kind = "file"
       /\ \A d \in {"scripts", "references", "assets"} : fs[entry(d)].kind = "dir"
       /\ Glob(fs, entry("assets")) = {Join(entry("assets"), ".gitkeep")}
       /\ fs[Join(entry("assets"), ".gitkeep")] = FileNode("")
       /\ StartsWith(text, "---\nname: " \o call.skill_name \o "\n")
       /\ Contains(text, "\n# " \o ExpectedTitle[call.skill_name] \o "\n")

\* C3 as stated: every name made only of letters, digits, hyphens and underscores is
\* scaffolded when the skill path does not exist yet (and the output path can hold it).
C3_AllowedCharsScaffold ==
    (/\ IsCreate
     /\ \A i \in 1..Len(call.skill_name) :
            Char(call.skill_name, i) \in LETTERS \cup CharsOf(DIGITS) \cup {"-", "_"}
     /\ SkillPath \notin DOMAIN call.before
     /\ OutputUsable(call.before, call.output_path)) => Scaffolded

\* C3 as amended: so is every such name that has at least one letter or digit; scripts/
\* and references/ then hold the one example file each.
C3_ValidNameScaffolds ==
    (/\ IsCreate
     /\ \A i \in 1..Len(call.skill_name) :
            Char(call.skill_name, i) \in LETTERS \cup CharsOf(DIGITS) \cup {"-", "_"}
     /\ \E i \in 1..Len(call.skill_name) :
            Char(call.skill_name, i) \in LETTERS \cup CharsOf(DIGITS)
     /\ SkillPath \notin DOMAIN call.before
     /\ OutputUsable(call.before, call.output_path)) =>
        /\ Scaffolded
        /\ Glob(fs, Join(SkillPath, "scripts")) = {Join(Join(SkillPath, "scripts"), "example.py")}
        /\ Glob(fs, Join(SkillPath, "references"))
               = {Join(Join(SkillPath, "references"), "example.md")}

C3_Witness ==
    IsCreate /\ call.skill_name = "Ab_2c" /\ call.raised = "" /\ SkillPath \in DOMAIN fs

\* the text of SKILL.md the last validate_skill run read, when it could read one
ManifestRead ==
    LET skill_md == Join(call.skill_path, "SKILL.md")
    IN IsFile(call.before, skill_md) /\ call.before[skill_md].decodable

ManifestText == call.before[Join(call.skill_path, "SKILL.md")].text

\* the messages of the rules the skill violates, rule by rule
ExpectedErrors(f, skill_path) ==
    LET p == parse_frontmatter(f[Join(skill_path, "SKILL.md")].text)
        fm == p.frontmatter
        desc == fm["description"]
        has(text, sub) ==
            \E i \in 1..(Len(text) - Len(sub) + 1) : SubSeq(text, i, i + Len(sub) - 1) = sub
    IN (IF "name" \notin DOMAIN fm THEN {MissingNameError}
        ELSE IF ~MatchesNamePattern(fm["name"]) THEN {InvalidNameError(fm["name"])}
        ELSE {})
       \cup (IF "description" \notin DOMAIN fm THEN {MissingDescriptionError}
            ELSE (IF Len(desc) < 50 THEN {DescriptionTooShortError(Len(desc))} ELSE {})
                 \cup (IF has(desc, "TODO") THEN {DescriptionTodoError} ELSE {})
                 \cup (IF \A i \in DOMAIN TRIGGERS : ~has(Lower(desc), TRIGGERS[i])
                       THEN {DescriptionTriggerError} ELSE {}))
       \cup (IF Len(Strip(p.body, WHITESPACE)) < 100 THEN {BodyTooShortError} ELSE {})
       \cup (IF has(p.body, "TODO") THEN {BodyTodoError} ELSE {})
       \cup {MissingSectionError(recommended_sections[i]) :
                i \in {j \in DOMAIN recommended_sections :
                          ~has(Lower(p.body), Lower(recommended_sections[j]))}}
       \cup UNION {{FileTodoError(SUBDIRS[i], Name(file)) :
                       file \in {g \in Glob(f, Join(skill_path, SUBDIRS[i])) :
                                    /\ Name(g) # ".gitkeep"
                                    /\ f[g].kind = "file"
                                    /\ has(f[g].text, "TODO")}} :
                   i \in DOMAIN SUBDIRS}

\* C4: with SKILL.md there, validate_skill returns the messages of exactly the rules the
\* skill violates; without it, the one message that it is missing.
C4_AllRulesAccumulate ==
    IsValidate =>
        /\ call.raised = ""
        /\ IF Join(call.skill_path, "SKILL.md") \in DOMAIN call.before
           THEN Range(call.errors) = ExpectedErrors(call.before, call.skill_path)
           ELSE call.errors = <<NotFoundError>>

\* validate_skill run on a skill as create_skill("my-skill", ...) left it
FreshMySkill ==
    /\ IsValidate
    /\ call.skill_path \in created
    /\ Name(call.skill_path) = "my-skill"
    /\ edits = 0

\* C5 as stated: the errors include those of the three missing recommended sections,
\* and not the one of a body too short.
C5_ReportsMissingSections ==
    FreshMySkill =>
        /\ call.raised = ""
        /\ call.errors # <<>>
        /\ "Missing recommended section: 'When to Use'" \in Range(call.errors)
        /\ "Missing recommended section: 'Workflow'" \in Range(call.errors)
        /\ "Missing recommended section: 'Example'" \in Range(call.errors)
        /\ "SKILL.md body is too short. Add detailed instructions." \notin Range(call.errors)

\* C5 as amended: the errors are the four of the TODO placeholders the templates leave,
\* none of them that of a missing recommended section or of a body too short.
C5_ReportsNoMissingSection ==
    FreshMySkill =>
        /\ call.raised = ""
        /\ call.errors = <<"Description contains TODO placeholder",
                           "SKILL.md body contains TODO placeholders",
                           "File scripts/example.py contains TODO placeholders",
                           "File references/example.md contains TODO placeholders">>
        /\ "Missing recommended section: 'When to Use'" \notin Range(call.errors)
        /\ "Missing recommended section: 'Workflow'" \notin Range(call.errors)
        /\ "Missing recommended section: 'Example'" \notin Range(call.errors)
        /\ "SKILL.md body is too short. Add detailed instructions." \notin Range(call.errors)

C5_Witness == FreshMySkill /\ Len(call.errors) = 4

\* C7: an entry of scripts/, references/ or assets/ that is a directory or a file that
\* is not text is skipped: validate_skill returns, with no message about the entry.
C7_UnreadableEntrySkipped ==
    (IsValidate /\ ManifestRead) =>
        \A i \in DOMAIN SUBDIRS :
            \A entry \in Glob(call.before, Join(call.skill_path, SUBDIRS[i])) :
                (call.before[entry].kind = "dir" \/ ~call.before[entry].decodable) =>
                    /\ call.raised = ""
                    /\ FileTodoError(SUBDIRS[i], Name(entry)) \notin Range(call.errors)

\* C8: the error of a description too short is there exactly when the parsed
\* description has fewer than 50 characters, and it quotes that length.
C8_DescriptionBoundary ==
    (/\ IsValidate
     /\ ManifestRead
     /\ "description" \in DOMAIN parse_frontmatter(ManifestText).frontmatter) =>
        LET n == Len(parse_frontmatter(ManifestText).frontmatter["description"])
            short == {e \in Range(call.errors) : StartsWith(e, "Description too short")}
        IN /\ n < 50 => short = {"Description too short (" \o ToString(n)
                                     \o " chars). Should be at least 50 characters."}
           /\ n = 49 => "Description too short (49 chars). Should be at least 50 characters."
                            \in Range(call.errors)
           /\ n >= 50 => short = {}

\* a description of 49 characters, inside quotes in the file
C8_Witness ==
    /\ IsValidate
    /\ ManifestRead
    /\ Contains(ManifestText, "description: \"" \o Description49 \o "\"\n")
    /\ "Description too short (49 chars). Should be at least 50 characters."
           \in Range(call.errors)

\* C10: SKILL.md as create_skill wrote it parses to the name given and a description,
\* and to the body that follows the closing "---" line.
C10_ScaffoldParses ==
    (IsCreate /\ call.raised = "") =>
        LET text == fs[Join(SkillPath, "SKILL.md")].text
            p == parse_frontmatter(text)
            closing == Find(text, "\n---\n", 1)
        IN /\ "name" \in DOMAIN p.frontmatter
           /\ p.frontmatter["name"] = call.skill_name
           /\ "description" \in DOMAIN p.frontmatter
           /\ p.body = SubSeq(text, closing + 4, Len(text))

\* parse_frontmatter has returned
Parsed == parsed # NotParsed

\* x holds a line that is the delimiter
HasDelimiterLine(x) == \E i \in DOMAIN Split(x, "\n", -1) : Split(x, "\n", -1)[i] = "---"

\* C6 as stated: a mapping none of whose keys and values holds a delimiter line is
\* parsed back as it was written.
C6_RoundTrip ==
    (Parsed /\ \A k \in DOMAIN mapping : ~HasDelimiterLine(k) /\ ~HasDelimiterLine(mapping[k]))
        => parsed[1].frontmatter = mapping

\* x begins or ends with a character of chars
HasEdge(x, chars) == Len(x) > 0 /\ (Char(x, 1) \in chars \/ Char(x, Len(x)) \in chars)

\* a mapping the line format can carry: no line break and no "---" in a key or a value,
\* no ":" in a key, no white space at either end of a key or a value, no quote at
\* either end of a value
Carried(d) ==
    \A k \in DOMAIN d :
        /\ \A x \in {k, d[k]} :
               ~Contains(x, "\n") /\ ~Contains(x, "---") /\ ~HasEdge(x, WHITESPACE)
        /\ ~Contains(k, ":")
        /\ ~HasEdge(d[k], QUOTES)

\* C6 as amended: such a mapping is parsed back as it was written.
C6_RoundTripCarried == (Parsed /\ Carried(mapping)) => parsed[1].frontmatter = mapping

\* two entries, one with a colon in its value
C6_Witness ==
    /\ Parsed
    /\ Carried(mapping)
    /\ Cardinality(DOMAIN mapping) = 2
    /\ \E k \in DOMAIN mapping : Contains(mapping[k], ":")
    /\ parsed[1].frontmatter = mapping

\* one matching layer of quotes off v, when v has one
OneQuoteLayer(v) ==
    IF Len(v) >= 2 /\ Char(v, 1) \in QUOTES /\ Char(v, Len(v)) = Char(v, 1)
    THEN SubSeq(v, 2, Len(v) - 1)
    ELSE v

\* C9: of a line "key: value", the key is what stands before the first ":", trimmed, and
\* its value what stands after it, trimmed and with one matching layer of quotes off.
C9_OneMatchingQuoteLayer ==
    (/\ Parsed
     /\ Cardinality(DOMAIN mapping) = 1
     /\ \A k \in DOMAIN mapping :
            \A x \in {k, mapping[k]} : ~Contains(x, "\n") /\ ~Contains(x, "---")) =>
        \A k \in DOMAIN mapping :
            LET line == k \o ": " \o mapping[k]
                colon == Find(line, ":", 1)
                key == Strip(SubSeq(line, 1, colon - 1), WHITESPACE)
                value == Strip(SubSeq(line, colon + 1, Len(line)), WHITESPACE)
            IN parsed[1].frontmatter = (key :> OneQuoteLayer(value))

====
